---- MODULE Spec2Model ----
(***************************************************************************)
(* MultiModelBackend (app/backends.py): authentication over the four       *)
(* identity tables, re-hydration of a principal from a session id, and     *)
(* group permissions with a per-instance cache.                            *)
(***************************************************************************)
EXTENDS Integers, Sequences, FiniteSets, TLC

VARIABLES store, session, authed, member, grants, heap, last

vars == <<store, session, authed, member, grants, heap, last>>

(***************************************************************************)
(* Bounds                                                                  *)
(***************************************************************************)
\* Most rows the identity tables hold in total.
MaxRecords == 2

(***************************************************************************)
(* Values                                                                  *)
(***************************************************************************)
Kinds == {"Admin", "Staff", "Parent", "Student"}
\* The primary keys in use; each table has its own rows under them.
IDs == {1, 2}

\* Python's None, for an argument that may also be a string.
None == "<None>"

\* A row of a table; a free primary key holds NoRecord.  The User table has
\* no phone column, its phone stays "" and is never queried.
NoRecord == [exists |-> FALSE, email |-> "", phone |-> "", pw |-> "", is_active |-> FALSE]

\* The database: the four tables, and under down the queries that fail at
\* present with a database error (none while the database is healthy).
EmptyStore == [k \in Kinds |-> [i \in IDs |-> NoRecord]] @@ [down |-> {}]

Rows(emails, phones, pws, actives) ==
    [k \in Kinds |->
        [exists : {TRUE}, email : emails,
         phone : IF k = "Admin" THEN {""} ELSE phones,
         pw : pws, is_active : actives]]

\* The places a row can be: (table, primary key), table by table.
KindSeq == <<"Admin", "Staff", "Parent", "Student">>
Slots ==
    [j \in 1..(Len(KindSeq) * Cardinality(IDs)) |->
        <<KindSeq[((j - 1) \div Cardinality(IDs)) + 1], ((j - 1) % Cardinality(IDs)) + 1>>]

\* Every content of the places from the j-th on with at most n rows drawn
\* from rows[kind].
RECURSIVE StoresFrom(_, _, _)
StoresFrom(j, n, rows) ==
    IF j > Len(Slots) \/ n = 0 THEN {EmptyStore}
    ELSE StoresFrom(j + 1, n, rows)
         \cup { [s EXCEPT ![Slots[j][1]][Slots[j][2]] = r] :
                    s \in StoresFrom(j + 1, n - 1, rows), r \in rows[Slots[j][1]] }

\* Every content of the tables with at most n rows.
StoresUpTo(n, rows) == StoresFrom(1, n, rows)

\* A store query as the instrumented store sees it.
Access(k, by) == [kind |-> k, by |-> by]

\* What an operation hands back: a principal of a table, None, or an exception.
UserOf(k, i) == [status |-> "user", kind |-> k, id |-> i, exc |-> ""]
ReturnNone == [status |-> "None", kind |-> "", id |-> 0, exc |-> ""]
Raise(e) == [status |-> "raise", kind |-> "", id |-> 0, exc |-> e]

(***************************************************************************)
(* The ORM calls the backend makes                                         *)
(***************************************************************************)
Matching(st, k, field, value) ==
    {i \in IDs : st[k][i].exists /\ st[k][i][field] = value}

Min(S) == CHOOSE i \in S : \A j \in S : i <= j

\* The query (table, column) fails at present.
Faulty(st, k, by) == Access(k, by) \in st.down

\* As FilterFirst, but a failing query is taken for an empty result.
FilterFirstSwallows(st, k, field, value) ==
    LET M == Matching(st, k, field, value)
    IN  IF Faulty(st, k, field) \/ M = {} THEN [status |-> "DoesNotExist", id |-> 0]
        ELSE [status |-> "found", id |-> Min(M)]

\* As ObjectsGet, but several matching rows give the first of them.
ObjectsGetFirst(st, k, field, value) ==
    LET M == Matching(st, k, field, value)
    IN  IF Faulty(st, k, field) THEN [status |-> "DatabaseError", id |-> 0]
        ELSE IF M = {} THEN [status |-> "DoesNotExist", id |-> 0]
        ELSE [status |-> "found", id |-> Min(M)]

\* Model.objects.get(field=value)
ObjectsGet(st, k, field, value) ==
    LET M == Matching(st, k, field, value)
    IN  IF Faulty(st, k, field) THEN [status |-> "DatabaseError", id |-> 0]
        ELSE IF M = {} THEN [status |-> "DoesNotExist", id |-> 0]
        ELSE IF Cardinality(M) > 1 THEN [status |-> "MultipleObjectsReturned", id |-> 0]
        ELSE [status |-> "found", id |-> Min(M)]

\* Model.objects.filter(field=value).first(): the row with the least pk, or None
FilterFirst(st, k, field, value) ==
    LET M == Matching(st, k, field, value)
    IN  IF Faulty(st, k, field) THEN [status |-> "DatabaseError", id |-> 0]
        ELSE IF M = {} THEN [status |-> "DoesNotExist", id |-> 0]
        ELSE [status |-> "found", id |-> Min(M)]

\* As check_password, but the secret of a row that is switched off never verifies.
check_password_ActiveOnly(rec, raw) == rec.is_active /\ rec.pw = raw

\* record.check_password(raw): the opaque secret verification of a row
check_password(rec, raw) == rec.pw = raw

(***************************************************************************)
(* authenticate                                                            *)
(***************************************************************************)
\* The six lookups of authenticate in program order.
AuthProbes ==
    << [kind |-> "Admin",   field |-> "email", how |-> "get"],
       [kind |-> "Staff",   field |-> "phone", how |-> "first"],
       [kind |-> "Staff",   field |-> "email", how |-> "first"],
       [kind |-> "Parent",  field |-> "phone", how |-> "first"],
       [kind |-> "Student", field |-> "phone", how |-> "first"],
       [kind |-> "Student", field |-> "email", how |-> "first"] >>

Lookup(st, pr, value) ==
    IF pr.how = "get" THEN ObjectsGet(st, pr.kind, pr.field, value)
    ELSE FilterFirst(st, pr.kind, pr.field, value)

\* As AuthFrom, but the lookups after the one that matched are still made.
RECURSIVE AuthFromKeepsProbing(_, _, _, _, _)
AuthFromKeepsProbing(st, n, username, password, log) ==
    IF n > Len(AuthProbes) THEN [outcome |-> ReturnNone, accesses |-> log]
    ELSE LET pr   == AuthProbes[n]
             log2 == Append(log, Access(pr.kind, pr.field))
             got  == Lookup(st, pr, username)
             rest == AuthFromKeepsProbing(st, n + 1, username, password, log2)
         IN  IF got.status \in {"MultipleObjectsReturned", "DatabaseError"}
             THEN [outcome |-> Raise(got.status), accesses |-> log2]
             ELSE IF got.status = "found" /\ check_password(st[pr.kind][got.id], password)
             THEN [outcome |-> UserOf(pr.kind, got.id), accesses |-> rest.accesses]
             ELSE rest

\* The lookups from the n-th on; log is the store accesses made so far.
RECURSIVE AuthFrom(_, _, _, _, _)
AuthFrom(st, n, username, password, log) ==
    IF n > Len(AuthProbes) THEN [outcome |-> ReturnNone, accesses |-> log]
    ELSE LET pr   == AuthProbes[n]
             log2 == Append(log, Access(pr.kind, pr.field))
             got  == Lookup(st, pr, username)
         IN  IF got.status \in {"MultipleObjectsReturned", "DatabaseError"}
             THEN [outcome |-> Raise(got.status), accesses |-> log2]
             ELSE IF got.status = "found" /\ check_password(st[pr.kind][got.id], password)
             THEN [outcome |-> UserOf(pr.kind, got.id), accesses |-> log2]
             ELSE AuthFrom(st, n + 1, username, password, log2)

AuthGuardNameOnly(username, password) == username = None

AuthGuard(username, password) == username = None \/ password = None

authenticate(st, username, password) ==
    IF AuthGuard(username, password)
    THEN [outcome |-> ReturnNone, accesses |-> << >>]
    ELSE AuthFrom(st, 1, username, password, << >>)

(***************************************************************************)
(* get_user                                                                *)
(***************************************************************************)
\* Characters of a raw id held as text, and the longest text tried.
RawChars == {"1", "x"}
MaxRawLen == 2

RawNone == [t |-> "none", s |-> << >>, n |-> 0]
RawInt(n) == [t |-> "int", s |-> << >>, n |-> n]
RawStr(s) == [t |-> "str", s |-> s, n |-> 0]

RawStrings == UNION { [1..l -> RawChars] : l \in 0..MaxRawLen }
RawIDs == {RawNone} \cup {RawInt(n) : n \in 0..3} \cup {RawStr(s) : s \in RawStrings}

Digits == <<"0", "1", "2", "3", "4", "5", "6", "7", "8", "9">>
IsDigit(c) == \E d \in 1..Len(Digits) : Digits[d] = c
DigitValue(c) == (CHOOSE d \in 1..Len(Digits) : Digits[d] = c) - 1

\* str(pk): the decimal numeral of a positive primary key
RECURSIVE Str(_)
Str(n) == IF n < 10 THEN <<Digits[n + 1]>> ELSE Append(Str(n \div 10), Digits[(n % 10) + 1])

RECURSIVE DecimalValue(_)
DecimalValue(s) ==
    IF s = << >> THEN 0
    ELSE 10 * DecimalValue(SubSeq(s, 1, Len(s) - 1)) + DigitValue(s[Len(s)])

\* int(user_id): an int is itself, a text of decimal digits is its value,
\* any other text raises ValueError.
ParseInt(raw) ==
    IF raw.t = "int" THEN [ok |-> TRUE, n |-> raw.n]
    ELSE IF raw.s # << >> /\ \A j \in 1..Len(raw.s) : IsDigit(raw.s[j])
    THEN [ok |-> TRUE, n |-> DecimalValue(raw.s)]
    ELSE [ok |-> FALSE, n |-> 0]

\* Model.objects.get(pk=user_id)
GetByPk(st, k, id) == id \in IDs /\ st[k][id].exists

\* _USER_MODEL_MAP: session model label -> table
USER_MODEL_MAP ==
    ("student" :> "Student") @@ ("staff" :> "Staff") @@ ("parent" :> "Parent") @@ ("user" :> "Admin")

GET_USER_ORDER_AdminFirst == <<"Admin", "Staff", "Parent", "Student">>

\* _GET_USER_ORDER
GET_USER_ORDER == <<"Student", "Parent", "Staff", "Admin">>

\* The ambient request: none, one without a session, or one whose session
\* holds tag under _auth_user_model (None when the key is not set).
NoRequest == [ctx |-> "norequest", tag |-> None]
NoSession == [ctx |-> "nosession", tag |-> None]
Session(tag) == [ctx |-> "session", tag |-> tag]
Tags == {None, "", "user", "admin", "staff", "parent", "student", "legacy"}
Requests == {NoRequest, NoSession} \cup {Session(t) : t \in Tags}

\* The fallback loop from the n-th table of the order on.
RECURSIVE GetUserFrom(_, _, _, _)
GetUserFrom(st, n, id, log) ==
    IF n > Len(GET_USER_ORDER) THEN [outcome |-> ReturnNone, accesses |-> log]
    ELSE LET k    == GET_USER_ORDER[n]
             log2 == Append(log, Access(k, "pk"))
         IN  IF Faulty(st, k, "pk")
             THEN [outcome |-> Raise("DatabaseError"), accesses |-> log2]
             ELSE IF GetByPk(st, k, id)
             THEN [outcome |-> UserOf(k, id), accesses |-> log2]
             ELSE GetUserFrom(st, n + 1, id, log2)

\* The session label picks the table: it is set, not empty, and a key of the map.
TagSelects(req) ==
    /\ req.ctx = "session"
    /\ req.tag # None /\ req.tag # ""
    /\ req.tag \in DOMAIN USER_MODEL_MAP

\* As GetUserParsed, but the session label is not used: the fallback loop always runs.
GetUserParsedIgnoresTag(st, req, id) ==
    LET reads == IF req.ctx = "session" THEN <<"get_current_request", "session.get">>
                 ELSE <<"get_current_request">>
        r     == GetUserFrom(st, 1, id, << >>)
    IN  [outcome |-> r.outcome, accesses |-> r.accesses, reads |-> reads]

\* As GetUserParsed, but a miss in the tagged table goes on to the fallback loop.
GetUserParsedFallsBack(st, req, id) ==
    LET reads == IF req.ctx = "session" THEN <<"get_current_request", "session.get">>
                 ELSE <<"get_current_request">>
        r     == GetUserFrom(st, 1, id, << >>)
    IN  IF TagSelects(req) /\ GetByPk(st, USER_MODEL_MAP[req.tag], id)
        THEN [outcome  |-> UserOf(USER_MODEL_MAP[req.tag], id),
              accesses |-> <<Access(USER_MODEL_MAP[req.tag], "pk")>>,
              reads    |-> reads]
        ELSE [outcome |-> r.outcome, accesses |-> r.accesses, reads |-> reads]

\* After the id has parsed: the request is fetched, its session read if it has one.
GetUserParsed(st, req, id) ==
    LET reads == IF req.ctx = "session" THEN <<"get_current_request", "session.get">>
                 ELSE <<"get_current_request">>
    IN  IF TagSelects(req)
        THEN LET k == USER_MODEL_MAP[req.tag]
             IN  [outcome  |-> IF Faulty(st, k, "pk") THEN Raise("DatabaseError")
                               ELSE IF GetByPk(st, k, id) THEN UserOf(k, id)
                               ELSE ReturnNone,
                  accesses |-> <<Access(k, "pk")>>,
                  reads    |-> reads]
        ELSE LET r == GetUserFrom(st, 1, id, << >>)
             IN  [outcome |-> r.outcome, accesses |-> r.accesses, reads |-> reads]

\* As get_user, but the request is fetched before the id is parsed.
get_user_RequestFirst(st, req, raw) ==
    LET reads == IF req.ctx = "session" THEN <<"get_current_request", "session.get">>
                 ELSE <<"get_current_request">>
    IN  IF raw.t = "none" \/ ~ParseInt(raw).ok
        THEN [outcome |-> ReturnNone, accesses |-> << >>, reads |-> reads]
        ELSE GetUserParsed(st, req, ParseInt(raw).n)

get_user(st, req, raw) ==
    IF raw.t = "none" \/ ~ParseInt(raw).ok
    THEN [outcome |-> ReturnNone, accesses |-> << >>, reads |-> << >>]
    ELSE GetUserParsed(st, req, ParseInt(raw).n)

(***************************************************************************)
(* get_group_permissions, get_all_permissions, has_perm                    *)
(***************************************************************************)
\* As PermKinds, with the User table among the kinds that take the group path.
PermKindsWithAdmin == {"Staff", "Student", "Admin"}

\* isinstance(user_obj, (Staff, Student))
PermKinds == {"Staff", "Student"}
Groups == {"g1", "g2"}
\* A granted permission: (content_type__app_label, codename)
Permissions == {<<"app", "view_x">>, <<"app", "edit_y">>}

\* "%s.%s" % (ct, name)
PermString(ct, name) == ct \o "." \o name
PermStrings == {PermString(p[1], p[2]) : p \in Permissions}

\* A principal object in memory.  has_cache is hasattr(_group_perm_cache).
\* served and computes are instrumentation: whether a permission call has
\* already reached this object while it was active, not anonymous and
\* without a target object, and how many times its groups were queried.
NewInstance(st, k, i) ==
    [kind |-> k, id |-> i, is_active |-> st[k][i].is_active, is_anonymous |-> FALSE,
     has_cache |-> FALSE, cache |-> {}, served |-> FALSE, computes |-> 0]

\* django.contrib.auth.models.AnonymousUser
AnonymousUser ==
    [kind |-> "Anonymous", id |-> 0, is_active |-> FALSE, is_anonymous |-> TRUE,
     has_cache |-> FALSE, cache |-> {}, served |-> FALSE, computes |-> 0]

\* Who holds a principal object: two requests in flight, each with the
\* object it resolved for itself.  A request that has resolved nothing yet
\* holds NoInstance.
Holders == {"r1", "r2"}
NoInstance ==
    [kind |-> "none", id |-> 0, is_active |-> FALSE, is_anonymous |-> FALSE,
     has_cache |-> FALSE, cache |-> {}, served |-> FALSE, computes |-> 0]

\* not user_obj.is_active or user_obj.is_anonymous or obj is not None
\* (obj is TRUE when a target object is supplied)
Denied(u, obj) == ~u.is_active \/ u.is_anonymous \/ obj

\* The loop over user_obj.groups.all(), with one values_list query per group.
UnionOfOneGroup(u, mem, gr) ==
    IF mem[u.kind][u.id] = {} THEN {}
    ELSE LET g == CHOOSE x \in mem[u.kind][u.id] : TRUE
         IN  {PermString(p[1], p[2]) : p \in gr[g]}

GroupUnion(u, mem, gr) ==
    UNION { {PermString(p[1], p[2]) : p \in gr[g]} : g \in mem[u.kind][u.id] }

GroupQueries(u, mem) == 1 + Cardinality(mem[u.kind][u.id])

Result(ret, flag, u, q) == [ret |-> ret, flag |-> flag, user |-> u, queries |-> q]

\* As get_group_permissions, but the set is computed on every call.
get_group_permissions_NoCache(u, obj, mem, gr, sup) ==
    IF Denied(u, obj) THEN Result({}, FALSE, u, 0)
    ELSE IF u.kind \in PermKinds
    THEN LET perms == GroupUnion(u, mem, gr)
         IN  Result(perms, FALSE,
                    [u EXCEPT !.has_cache = TRUE, !.cache = perms,
                              !.computes = IF u.computes < 2 THEN u.computes + 1 ELSE 2],
                    GroupQueries(u, mem))
    ELSE Result(sup, FALSE, u, 0)

\* As get_group_permissions, without the guard on is_active, is_anonymous and obj.
get_group_permissions_NoGuard(u, obj, mem, gr, sup) ==
    IF u.kind \in PermKinds
    THEN IF ~u.has_cache
         THEN LET perms == GroupUnion(u, mem, gr)
              IN  Result(perms, FALSE,
                         [u EXCEPT !.has_cache = TRUE, !.cache = perms,
                                   !.computes = IF u.computes < 2 THEN u.computes + 1 ELSE 2],
                         GroupQueries(u, mem))
         ELSE Result(u.cache, FALSE, u, 0)
    ELSE Result(sup, FALSE, u, 0)

\* sup is what the superclass (django's ModelBackend, an opaque default
\* permission system) answers for a principal that is not Staff or Student.
get_group_permissions(u, obj, mem, gr, sup) ==
    IF Denied(u, obj) THEN Result({}, FALSE, u, 0)
    ELSE IF u.kind \in PermKinds
    THEN IF ~u.has_cache
         THEN LET perms == GroupUnion(u, mem, gr)
              IN  Result(perms, FALSE,
                         [u EXCEPT !.has_cache = TRUE, !.cache = perms,
                                   !.computes = IF u.computes < 2 THEN u.computes + 1 ELSE 2],
                         GroupQueries(u, mem))
         ELSE Result(u.cache, FALSE, u, 0)
    ELSE Result(sup, FALSE, u, 0)

get_all_permissions(u, obj, mem, gr, sup) ==
    IF Denied(u, obj) THEN Result({}, FALSE, u, 0)
    ELSE IF u.kind \in PermKinds
    THEN get_group_permissions(u, obj, mem, gr, sup)
    ELSE Result(sup, FALSE, u, 0)

\* super().has_perm: ModelBackend.has_perm is
\* user_obj.is_active and perm in self.get_all_permissions(user_obj, obj),
\* where self.get_all_permissions is the override above.
SuperHasPerm(u, perm, obj, mem, gr, sup) ==
    LET r == get_all_permissions(u, obj, mem, gr, sup)
    IN  Result({}, u.is_active /\ perm \in r.ret, r.user, r.queries)

has_perm(u, perm, obj, mem, gr, sup) ==
    IF ~u.is_active THEN Result({}, FALSE, u, 0)
    ELSE IF u.kind \in PermKinds
    THEN LET r == get_all_permissions(u, obj, mem, gr, sup)
         IN  Result({}, perm \in r.ret, r.user, r.queries)
    ELSE SuperHasPerm(u, perm, obj, mem, gr, sup)

(***************************************************************************)
(* State and operations                                                    *)
(***************************************************************************)
\* The last call made on the backend: its arguments, what it returned and
\* what the instrumented collaborators saw during it.
Idle ==
    [op |-> "init", username |-> None, password |-> None, raw |-> RawNone,
     inst |-> "", obj |-> FALSE, perm |-> "",
     outcome |-> ReturnNone, accesses |-> << >>, reads |-> << >>,
     perms |-> {}, flag |-> FALSE, queries |-> 0, first |-> FALSE, sup |-> {}]

Usernames == {None, "", "a"}
Passwords == {None, "", "p"}

\* As AuthenticateCall, but a successful call records a label in the session.
AuthenticateCallSetsTag(username, password) ==
    LET r == authenticate(store, username, password)
    IN  /\ last' = [Idle EXCEPT !.op = "authenticate", !.username = username,
                                !.password = password, !.outcome = r.outcome,
                                !.accesses = r.accesses]
        /\ session' = IF r.outcome.status = "user" /\ session.ctx = "session"
                      THEN Session(r.outcome.kind) ELSE session
        /\ UNCHANGED <<store, member, grants>>

\* backend.authenticate(request, username, password)
AuthenticateCall(username, password) ==
    LET r == authenticate(store, username, password)
    IN  /\ last' = [Idle EXCEPT !.op = "authenticate", !.username = username,
                                !.password = password, !.outcome = r.outcome,
                                !.accesses = r.accesses]
        /\ UNCHANGED <<store, session, member, grants>>

\* backend.get_user(user_id) under the ambient request
GetUserCall(raw) ==
    LET r == get_user(store, session, raw)
    IN  /\ last' = [Idle EXCEPT !.op = "get_user", !.raw = raw, !.outcome = r.outcome,
                                !.accesses = r.accesses, !.reads = r.reads]
        /\ UNCHANGED <<store, session, member, grants>>

\* The object a permission call is made on: a request's object, or the
\* anonymous sentinel.
Target(i) == IF i = "anon" THEN AnonymousUser ELSE heap[i]
Callers == {i \in Holders : heap[i] # NoInstance} \cup {"anon"}

\* A call that the deny rule lets through to the group computation.
Serves(u, obj) == u.is_active /\ ~u.is_anonymous /\ ~obj /\ u.kind \in PermKinds

\* What the superclass may answer for u; it is not asked for Staff and Student.
SupAnswers(u) == IF u.kind \in PermKinds THEN {{}} ELSE SUBSET PermStrings

\* As StoreBack, but the cache lands on every kept instance of the same record.
StoreBackShared(hp, i, u2, obj) ==
    IF i = "anon" THEN hp
    ELSE [j \in Holders |->
            IF j = i THEN [u2 EXCEPT !.served = hp[i].served \/ Serves(hp[i], obj)]
            ELSE IF hp[j].kind = u2.kind /\ hp[j].id = u2.id
                 THEN [hp[j] EXCEPT !.has_cache = u2.has_cache, !.cache = u2.cache]
                 ELSE hp[j]]

\* The object after the call is the one the call was made on, and no other.
StoreBack(hp, i, u2, obj) ==
    IF i = "anon" THEN hp
    ELSE [hp EXCEPT ![i] = [u2 EXCEPT !.served = hp[i].served \/ Serves(hp[i], obj)]]

\* The call reaches the superclass's permission lookup: the deny rule lets
\* it through and the object is not a Staff or a Student.
Delegated(u, obj) == ~Denied(u, obj) /\ u.kind \notin PermKinds

\* A permission call on i; sup is what the superclass's lookup answers for
\* the same arguments, kept with the call when the call reached it.
PermCall(op, i, perm, obj, sup, r) ==
    /\ heap' = StoreBack(heap, i, r.user, obj)
    /\ last' = [Idle EXCEPT !.op = op, !.inst = i, !.obj = obj, !.perm = perm,
                            !.perms = r.ret, !.flag = r.flag, !.queries = r.queries,
                            !.first = ~Target(i).served,
                            !.sup = IF Delegated(Target(i), obj) THEN sup ELSE {}]
    /\ UNCHANGED <<store, session, authed, member, grants>>

\* backend.get_group_permissions(user_obj, obj)
GroupPermissions(i, obj) ==
    \E sup \in SupAnswers(Target(i)) :
        PermCall("get_group_permissions", i, "", obj, sup,
                 get_group_permissions(Target(i), obj, member, grants, sup))

\* backend.get_all_permissions(user_obj, obj)
AllPermissions(i, obj) ==
    \E sup \in SupAnswers(Target(i)) :
        PermCall("get_all_permissions", i, "", obj, sup,
                 get_all_permissions(Target(i), obj, member, grants, sup))

\* backend.has_perm(user_obj, perm, obj)
HasPermission(i, perm, obj) ==
    \E sup \in SupAnswers(Target(i)) :
        PermCall("has_perm", i, perm, obj, sup,
                 has_perm(Target(i), perm, obj, member, grants, sup))

\* A caller that authenticates and lets the result go.
Authenticate(username, password) ==
    AuthenticateCall(username, password) /\ UNCHANGED <<authed, heap>>

(***************************************************************************)
(* Authentication alone, over every small content of the tables            *)
(***************************************************************************)
AuthStores == StoresUpTo(MaxRecords, Rows({"", "a"}, {"", "a"}, {"p", "q"}, {TRUE}))

\* Nobody logged in, no group rows, no object held, no call made yet.
InitRest ==
    /\ authed = ReturnNone
    /\ member = [k \in PermKinds |-> [i \in IDs |-> {}]]
    /\ grants = [g \in Groups |-> {}]
    /\ heap = [h \in Holders |-> NoInstance]
    /\ last = Idle

InitAuth == store \in AuthStores /\ session = NoRequest /\ InitRest

NextAuth == \E u \in Usernames, p \in Passwords : Authenticate(u, p)

SpecAuth == InitAuth /\ [][NextAuth]_vars

\* The probe order as the specification lists it.
ClaimProbes ==
    << <<"Admin", "email">>, <<"Staff", "phone">>, <<"Staff", "email">>,
       <<"Parent", "phone">>, <<"Student", "phone">>, <<"Student", "email">> >>

\* The record the n-th probe's lookup finds for identifier u: the first row
\* of the kind whose field is u (0 when there is none).
ProbeFinds(n, u) ==
    LET k == ClaimProbes[n][1]
        f == ClaimProbes[n][2]
        M == {i \in IDs : store[k][i].exists /\ store[k][i][f] = u}
    IN  IF M = {} THEN 0 ELSE Min(M)

ProbeVerifies(n, u, p) ==
    /\ ProbeFinds(n, u) # 0
    /\ store[ClaimProbes[n][1]][ProbeFinds(n, u)].pw = p

\* C1: for a non-empty identifier and secret, authenticate returns the record
\* of the first probe (Admin.email, Staff.phone, Staff.email, Parent.phone,
\* Student.phone, Student.email) that finds a record whose secret verifies,
\* and None exactly when no probe does.
C1_FirstVerifiedProbe ==
    (last.op = "authenticate" /\ last.username \notin {None, ""}
                              /\ last.password \notin {None, ""})
    => LET H == {n \in 1..6 : ProbeVerifies(n, last.username, last.password)}
       IN  IF H = {} THEN last.outcome = ReturnNone
           ELSE last.outcome = UserOf(ClaimProbes[Min(H)][1], ProbeFinds(Min(H), last.username))

\* C5 as stated: an identifier or secret that is None or empty gives None
\* with no store access.
C5_EmptyInputNoAccess ==
    (last.op = "authenticate" /\ (last.username \in {None, ""} \/ last.password \in {None, ""}))
    => (last.outcome = ReturnNone /\ last.accesses = << >>)

\* C5 amended: an identifier or secret that is None gives None with no store
\* access, whatever the tables hold.
C5_NoneInputNoAccess ==
    (last.op = "authenticate" /\ (last.username = None \/ last.password = None))
    => (last.outcome = ReturnNone /\ last.accesses = << >>)

\* A call without a secret against tables that hold a row the identifier names.
C5_Witness ==
    /\ last.op = "authenticate"
    /\ last.username = "a" /\ last.password = None
    /\ \E i \in IDs : store["Staff"][i].exists /\ store["Staff"][i].phone = "a"
    /\ last.outcome = ReturnNone /\ last.accesses = << >>

(***************************************************************************)
(* Resolution by id alone, over every request and small table content      *)
(***************************************************************************)
\* A caller that resolves an id and lets the result go.
GetUser(raw) == GetUserCall(raw) /\ UNCHANGED <<authed, heap>>

ResolveStores == StoresUpTo(MaxRecords, Rows({"a"}, {"a"}, {"p"}, BOOLEAN))

InitResolve ==
    /\ store \in ResolveStores
    /\ session \in Requests
    /\ InitRest

NextResolve == \E raw \in RawIDs : GetUser(raw)

SpecResolve == InitResolve /\ [][NextResolve]_vars

\* The kind tags as the specification lists them, and as the backend keys them.
SpecTagKind ==
    ("admin" :> "Admin") @@ ("staff" :> "Staff") @@ ("parent" :> "Parent") @@ ("student" :> "Student")
CodeTagKind ==
    ("user" :> "Admin") @@ ("staff" :> "Staff") @@ ("parent" :> "Parent") @@ ("student" :> "Student")

HasId(k, id) == id \in IDs /\ store[k][id].exists

\* The last call resolved integer id under a session tagged for kind k: it
\* looked in k's table only and returned k's record, or None when k has none.
OnlyTaggedKind(k, id) ==
    /\ last.outcome = IF HasId(k, id) THEN UserOf(k, id) ELSE ReturnNone
    /\ \A j \in 1..Len(last.accesses) : last.accesses[j].kind = k

\* C3 as stated: under a session tagged admin, staff, parent or student an
\* integer id is resolved in the tagged kind's table only, with no fallback.
C3_SpecTagsNoFallback ==
    (last.op = "get_user" /\ last.raw.t = "int"
        /\ session.ctx = "session" /\ session.tag \in DOMAIN SpecTagKind)
    => OnlyTaggedKind(SpecTagKind[session.tag], last.raw.n)

\* C3 amended: under a session tagged user, staff, parent or student (user
\* standing for Admin) an integer id is resolved in the tagged kind's table
\* only: that kind's record if it exists, otherwise None with no other
\* table looked at.
C3_CodeTagsNoFallback ==
    (last.op = "get_user" /\ last.raw.t = "int"
        /\ session.ctx = "session" /\ session.tag \in DOMAIN CodeTagKind)
    => OnlyTaggedKind(CodeTagKind[session.tag], last.raw.n)

\* Tag student, an id that only the Staff table holds: None, Student table only.
C3_Witness ==
    /\ last.op = "get_user" /\ last.raw.t = "int"
    /\ session = Session("student")
    /\ HasId("Staff", last.raw.n) /\ ~HasId("Student", last.raw.n)
    /\ last.outcome = ReturnNone
    /\ last.accesses = <<Access("Student", "pk")>>

\* The first kind of Student, Parent, Staff, Admin that holds id, or None.
FallbackAnswer(id) ==
    IF HasId("Student", id) THEN UserOf("Student", id)
    ELSE IF HasId("Parent", id) THEN UserOf("Parent", id)
    ELSE IF HasId("Staff", id) THEN UserOf("Staff", id)
    ELSE IF HasId("Admin", id) THEN UserOf("Admin", id)
    ELSE ReturnNone

\* No request, no session, no tag, an empty tag, or a tag the backend does
\* not know.
Untagged ==
    \/ session.ctx # "session"
    \/ session.tag \in {None, ""}
    \/ session.tag \in {"admin", "legacy"}

\* C4: without a usable tag an integer id never fails and resolves to the
\* first kind in the order Student, Parent, Staff, Admin that holds it, and
\* to None exactly when no kind holds it.
C4_FallbackOrder ==
    (last.op = "get_user" /\ last.raw.t = "int" /\ Untagged)
    => (last.outcome = FallbackAnswer(last.raw.n) /\ last.outcome.status # "raise")

\* An id held by both Student and Admin resolves to the Student without a request.
C4_Witness ==
    /\ last.op = "get_user" /\ last.raw.t = "int" /\ session = NoRequest
    /\ HasId("Student", last.raw.n) /\ HasId("Admin", last.raw.n)
    /\ last.outcome = UserOf("Student", last.raw.n)

\* A raw id that is None or a text that is not a decimal numeral.
NotAnInteger(raw) ==
    \/ raw.t = "none"
    \/ raw.t = "str" /\ (raw.s = << >> \/ \E j \in 1..Len(raw.s) : raw.s[j] = "x")

\* C6: a raw id that is None or does not parse gives None with no store
\* access and no read of the request or its session.
C6_BadIdNoAccess ==
    (last.op = "get_user" /\ NotAnInteger(last.raw))
    => (last.outcome = ReturnNone /\ last.accesses = << >> /\ last.reads = << >>)

\* A text that is no number, under a tagged session whose table has rows.
C6_Witness ==
    /\ last.op = "get_user" /\ last.raw = RawStr(<<"x">>)
    /\ session = Session("staff") /\ HasId("Staff", 1)
    /\ last.outcome = ReturnNone /\ last.accesses = << >> /\ last.reads = << >>

(***************************************************************************)
(* A session: authenticate, the login flow records a tag, later requests   *)
(* resolve the logged-in id                                                *)
(***************************************************************************)
\* The login flow around the backend: after a successful authenticate it
\* keeps the principal's id in the session and records a label under
\* _auth_user_model.  Which label it writes is the caller's choice.
RecordTag(t) ==
    /\ last.op = "authenticate" /\ last.outcome.status = "user"
    /\ session.ctx = "session"
    /\ session' = Session(t)
    /\ authed' = last.outcome
    /\ last' = [Idle EXCEPT !.op = "login", !.outcome = last.outcome]
    /\ UNCHANGED <<store, member, grants, heap>>

\* A later request of the session: get_user on the id the session keeps,
\* as the integer or as its decimal text.
SessionGetUser ==
    /\ authed.status = "user"
    /\ \E raw \in {RawInt(authed.id), RawStr(Str(authed.id))} : GetUser(raw)

LoginStores == StoresUpTo(MaxRecords, Rows({"a", "b"}, {"a", "b"}, {"p"}, {TRUE}))

InitLogin ==
    /\ store \in LoginStores
    /\ session = Session(None)
    /\ InitRest

NextLogin ==
    \/ \E u \in {"a", "b"} : Authenticate(u, "p")
    \/ \E t \in Tags : RecordTag(t)
    \/ SessionGetUser

SpecLogin == InitLogin /\ [][NextLogin]_vars

SpecTagOf ==
    ("Admin" :> "admin") @@ ("Staff" :> "staff") @@ ("Parent" :> "parent") @@ ("Student" :> "student")
CodeTagOf ==
    ("Admin" :> "user") @@ ("Staff" :> "staff") @@ ("Parent" :> "parent") @@ ("Student" :> "student")

\* C2 as stated: once the login flow has recorded the kind tag admin, staff,
\* parent or student of the authenticated principal, get_user on its id
\* returns that principal's own record, never another kind's.
C2_SpecTagRoundTrip ==
    (last.op = "get_user" /\ authed.status = "user"
        /\ session.tag = SpecTagOf[authed.kind])
    => last.outcome = authed

\* C2 amended: once the login flow has recorded the label user, staff,
\* parent or student of the authenticated principal's kind (user for
\* Admin), get_user on its id returns that principal's own record, never
\* another kind's, also when other tables hold the same id.
C2_CodeTagRoundTrip ==
    (last.op = "get_user" /\ authed.status = "user"
        /\ session.tag = CodeTagOf[authed.kind])
    => last.outcome = authed

\* An Admin logged in under the label user while a Student has the same id.
C2_Witness ==
    /\ last.op = "get_user" /\ authed.status = "user" /\ authed.kind = "Admin"
    /\ session.tag = "user"
    /\ HasId("Student", authed.id)
    /\ last.outcome = authed

(***************************************************************************)
(* Permission calls on kept principal objects while the group tables move  *)
(***************************************************************************)
\* A request resolves an id and holds the object it got from then on; the
\* object it held before, if any, is gone.
ResolveKeep(h, raw) ==
    LET r == get_user(store, session, raw)
    IN  /\ r.outcome.status = "user"
        /\ GetUserCall(raw)
        /\ heap' = [heap EXCEPT ![h] = NewInstance(store, r.outcome.kind, r.outcome.id)]
        /\ UNCHANGED authed

\* A request authenticates and holds the object it got.
AuthenticateKeep(h, username, password) ==
    LET r == authenticate(store, username, password)
    IN  /\ r.outcome.status = "user"
        /\ AuthenticateCall(username, password)
        /\ heap' = [heap EXCEPT ![h] = NewInstance(store, r.outcome.kind, r.outcome.id)]
        /\ UNCHANGED authed

\* What happens around the backend between calls.
Env == [Idle EXCEPT !.op = "env"]

\* As SetActive, but the object's cache is dropped with the assignment.
SetActiveDropsCache(i, b) ==
    /\ heap[i] # NoInstance
    /\ heap[i].is_active # b
    /\ heap' = [heap EXCEPT ![i].is_active = b, ![i].has_cache = FALSE, ![i].cache = {}]
    /\ last' = Env
    /\ UNCHANGED <<store, session, authed, member, grants>>

\* user_obj.is_active is assigned on a kept object.
SetActive(i, b) ==
    /\ heap[i] # NoInstance
    /\ heap[i].is_active # b
    /\ heap' = [heap EXCEPT ![i].is_active = b]
    /\ last' = Env
    /\ UNCHANGED <<store, session, authed, member, grants>>

\* A Staff or Student record joins or leaves a group.
AddMember(k, id, g) ==
    /\ store[k][id].exists /\ g \notin member[k][id]
    /\ member' = [member EXCEPT ![k][id] = @ \cup {g}]
    /\ last' = Env
    /\ UNCHANGED <<store, session, authed, grants, heap>>

RemoveMember(k, id, g) ==
    /\ g \in member[k][id]
    /\ member' = [member EXCEPT ![k][id] = @ \ {g}]
    /\ last' = Env
    /\ UNCHANGED <<store, session, authed, grants, heap>>

\* A group gains or loses a permission.
Grant(g, p) ==
    /\ p \notin grants[g]
    /\ grants' = [grants EXCEPT ![g] = @ \cup {p}]
    /\ last' = Env
    /\ UNCHANGED <<store, session, authed, member, heap>>

Revoke(g, p) ==
    /\ p \in grants[g]
    /\ grants' = [grants EXCEPT ![g] = @ \ {p}]
    /\ last' = Env
    /\ UNCHANGED <<store, session, authed, member, heap>>

\* One record in all the tables, so that the kept objects are objects of it.
PermStores ==
    UNION { { [EmptyStore EXCEPT ![k][1] = r] : r \in Rows({"a"}, {"a"}, {"p"}, {TRUE})[k] } :
            k \in Kinds }

\* The grants that come and go: g1 may hold app.view_x, g2 may hold app.edit_y.
GrantMoves == { <<"g1", <<"app", "view_x">> >>, <<"g2", <<"app", "edit_y">> >> }

InitPerm == store \in PermStores /\ session = NoRequest /\ InitRest

NextPerm ==
    \/ \E h \in Holders, i \in IDs : ResolveKeep(h, RawInt(i))
    \/ \E h \in Holders : AuthenticateKeep(h, "a", "p")
    \/ \E i \in Callers, obj \in BOOLEAN : GroupPermissions(i, obj)
    \/ \E i \in Callers, obj \in BOOLEAN : AllPermissions(i, obj)
    \/ \E i \in Callers, perm \in PermStrings, obj \in BOOLEAN : HasPermission(i, perm, obj)
    \/ \E i \in Holders, b \in BOOLEAN : SetActive(i, b)
    \/ \E k \in PermKinds, id \in IDs, g \in Groups : AddMember(k, id, g)
    \/ \E k \in PermKinds, id \in IDs, g \in Groups : RemoveMember(k, id, g)
    \/ \E m \in GrantMoves : Grant(m[1], m[2])
    \/ \E m \in GrantMoves : Revoke(m[1], m[2])

SpecPerm == InitPerm /\ [][NextPerm]_vars

PermOps == {"get_group_permissions", "get_all_permissions", "has_perm"}
SetOps == {"get_group_permissions", "get_all_permissions"}

\* The last permission call answered empty (the set operations) or false.
AnsweredNothing ==
    IF last.op \in SetOps THEN last.perms = {} ELSE last.flag = FALSE

\* The last permission call answered with the set S.
Answered(S) ==
    IF last.op \in SetOps THEN last.perms = S ELSE last.flag = (last.perm \in S)

\* C7: for a principal of any kind that is inactive or the anonymous
\* sentinel, or when a target object is supplied, the set operations return
\* the empty set and has_perm returns false, whatever the groups grant and
\* whatever the object's cache holds.
C7_UnconditionalDeny ==
    (last.op \in PermOps
        /\ (~Target(last.inst).is_active \/ Target(last.inst).is_anonymous \/ last.obj))
    => AnsweredNothing

\* has_perm on an object made inactive after its cache was filled, for a
\* permission the cache holds.
C7_Witness ==
    /\ last.op = "has_perm" /\ last.inst \in Holders /\ ~last.obj
    /\ ~heap[last.inst].is_active
    /\ heap[last.inst].has_cache /\ last.perm \in heap[last.inst].cache
    /\ last.flag = FALSE

\* Active, not anonymous, Staff or Student, no target object.
Eligible(u, obj) ==
    u.is_active /\ ~u.is_anonymous /\ u.kind \in {"Staff", "Student"} /\ ~obj

\* The strings namespace.action that the groups of u's record grant now.
GrantedNow(u) ==
    {s \in PermStrings :
        \E g \in member[u.kind][u.id] : \E q \in grants[g] : s = q[1] \o "." \o q[2]}

\* C8: for an active Staff or Student object and no target object, the
\* first permission call computes the union of the permission strings of
\* the groups the record is in at that moment; get_all_permissions returns
\* the same set as get_group_permissions, and has_perm is membership in it.
C8_UnionOfGroups ==
    (last.op \in PermOps /\ last.inst \in Holders /\ Eligible(Target(last.inst), last.obj))
    => /\ last.first => Answered(GrantedNow(Target(last.inst)))
       /\ Answered(Target(last.inst).cache)

\* The first call on a Student in g1 and g2 returns both groups' strings.
C8_Witness ==
    /\ last.op = "get_group_permissions" /\ last.inst \in Holders /\ last.first
    /\ Eligible(Target(last.inst), last.obj)
    /\ Target(last.inst).kind = "Student"
    /\ member["Student"][Target(last.inst).id] = {"g1", "g2"}
    /\ last.perms = {"app.view_x", "app.edit_y"}

\* C9: on one active Staff or Student object the group tables are queried
\* during the first permission call only; every later call queries nothing
\* and returns the set computed then.
C9_ComputeOnce ==
    /\ \A h \in Holders : heap[h].computes <= 1
    /\ (last.op \in PermOps /\ last.inst \in Holders
            /\ Eligible(Target(last.inst), last.obj))
       => /\ last.first => (last.queries >= 1 /\ heap[last.inst].computes = 1)
          /\ ~last.first => (last.queries = 0 /\ heap[last.inst].computes = 1)

\* A later call that queried nothing and returned a set the groups no longer grant.
C9_Witness ==
    /\ last.op = "get_all_permissions" /\ last.inst \in Holders /\ ~last.first
    /\ Eligible(Target(last.inst), last.obj)
    /\ last.queries = 0
    /\ last.perms # {} /\ last.perms # GrantedNow(Target(last.inst))

\* C10: the cache belongs to one object.  An object that authenticate or
\* get_user has just built carries no cache, its first call computes from
\* the groups as they are then, and a permission call on one object leaves
\* every other object, the objects of the same record included, as it was.
C10_PerInstanceCache ==
    [][ /\ \A h \in Holders :
             (last'.op \in {"get_user", "authenticate"} /\ heap'[h] # heap[h])
             => (~heap'[h].has_cache /\ ~heap'[h].served)
        /\ \A h \in Holders :
             (last'.op \in PermOps /\ h # last'.inst) => heap'[h] = heap[h]
        /\ (last'.op \in SetOps /\ last'.inst \in Holders
                /\ Eligible(heap[last'.inst], last'.obj) /\ ~heap[last'.inst].has_cache)
           => last'.perms = GrantedNow(heap[last'.inst])
      ]_vars

\* Two objects of one record: the older keeps the set it computed, the newer
\* has just computed a different one.
C10_Witness ==
    /\ heap["r1"].kind = heap["r2"].kind /\ heap["r1"].id = heap["r2"].id
    /\ heap["r1"].has_cache /\ heap["r2"].has_cache
    /\ last.op = "get_group_permissions" /\ last.inst = "r2" /\ last.first
    /\ last.perms = heap["r2"].cache
    /\ heap["r1"].cache # heap["r2"].cache

(***************************************************************************)
(* The backend calls of a site: logins, later requests, and accounts being *)
(* switched off and on between them                                        *)
(***************************************************************************)
\* An administrator flips is_active on a row of a table.
ToggleActive(k, i) ==
    /\ store[k][i].exists
    /\ store' = [store EXCEPT ![k][i].is_active = ~@]
    /\ last' = Env
    /\ UNCHANGED <<session, authed, member, grants, heap>>

SiteStores == StoresUpTo(MaxRecords, Rows({"a"}, {"a"}, {"p"}, BOOLEAN))

InitSite ==
    /\ store \in SiteStores
    /\ session = Session(None)
    /\ InitRest

NextSite ==
    \/ \E u \in Usernames, p \in Passwords : Authenticate(u, p)
    \/ \E raw \in RawIDs : GetUser(raw)
    \/ \E t \in DOMAIN USER_MODEL_MAP : RecordTag(t)
    \/ \E k \in Kinds, i \in IDs : ToggleActive(k, i)

SpecSite == InitSite /\ [][NextSite]_vars

\* C11: a call of authenticate, whatever its outcome, and a call of get_user
\* leave the session (its _auth_user_model label included) and every row of
\* the four tables exactly as they were; get_user only reads the label.
C11_NoSideEffects ==
    [][ last'.op \in {"authenticate", "get_user"}
            => (session' = session /\ store' = store) ]_vars

\* In a session that a Staff login labelled staff, on a Staff row that is
\* switched off, authenticate succeeded again: label and row are as before.
C11_Witness ==
    /\ last.op = "authenticate" /\ last.outcome.status = "user"
    /\ authed = last.outcome /\ authed.kind = "Staff"
    /\ session = Session("staff")
    /\ ~store["Staff"][authed.id].is_active

(***************************************************************************)
(* Both lookups over every small content of the tables, without a request  *)
(***************************************************************************)
InitCalls == InitAuth

NextCalls ==
    \/ \E u \in Usernames, p \in Passwords : Authenticate(u, p)
    \/ \E i \in 0..3 : GetUser(RawInt(i))

SpecCalls == InitCalls /\ [][NextCalls]_vars

\* The fallback order as the specification lists it.
ClaimOrder == <<"Student", "Parent", "Staff", "Admin">>

\* C12: the store accesses of one authenticate call are the probes 1, 2, ...
\* in that order, each once, up to the probe that ended the call, and no
\* probe before the last one made had found a record whose secret
\* verifies; a call that returns a record stops at the probe that verified
\* it and a call that returns None on given inputs has made all six.  The
\* accesses of one fallback get_user are Student, Parent, Staff, Admin by
\* primary key in that order, ending at the first table that holds the id.
C12_SequentialShortCircuit ==
    /\ last.op = "authenticate"
       => LET n == Len(last.accesses)
          IN  /\ n <= 6
              /\ \A j \in 1..n :
                    last.accesses[j] = Access(ClaimProbes[j][1], ClaimProbes[j][2])
              /\ \A j \in 1..(n - 1) : ~ProbeVerifies(j, last.username, last.password)
              /\ last.outcome.status = "user"
                    => (n >= 1 /\ ProbeVerifies(n, last.username, last.password))
              /\ (last.outcome = ReturnNone
                    /\ last.username # None /\ last.password # None) => n = 6
    /\ (last.op = "get_user" /\ last.raw.t = "int" /\ Untagged)
       => LET n == Len(last.accesses)
          IN  /\ n <= 4
              /\ \A j \in 1..n : last.accesses[j] = Access(ClaimOrder[j], "pk")
              /\ \A j \in 1..(n - 1) : ~HasId(ClaimOrder[j], last.raw.n)
              /\ last.outcome.status = "user" => (n >= 1 /\ HasId(ClaimOrder[n], last.raw.n))
              /\ last.outcome = ReturnNone => n = 4

\* A Staff row found by phone with another secret, and a Student row whose
\* secret verifies: five accesses, none after the Student phone probe.
C12_Witness ==
    /\ last.op = "authenticate"
    /\ ProbeFinds(2, last.username) # 0 /\ ~ProbeVerifies(2, last.username, last.password)
    /\ ProbeVerifies(5, last.username, last.password)
    /\ ProbeVerifies(6, last.username, last.password)
    /\ Len(last.accesses) = 5
    /\ last.outcome.kind = "Student"

(***************************************************************************)
(* The lookups while queries of the database fail and recover              *)
(***************************************************************************)
\* Every query the backend makes: the six of authenticate, and get by
\* primary key on each table.
Queries ==
    {Access(AuthProbes[n].kind, AuthProbes[n].field) : n \in 1..Len(AuthProbes)}
        \cup {Access(k, "pk") : k \in Kinds}

\* One query starts failing, or the whole database becomes unreachable.
Outages == {{a} : a \in Queries} \cup {Queries}

Break(S) ==
    /\ store.down = {}
    /\ store' = [store EXCEPT !.down = S]
    /\ last' = Env
    /\ UNCHANGED <<session, authed, member, grants, heap>>

Repair ==
    /\ store.down # {}
    /\ store' = [store EXCEPT !.down = {}]
    /\ last' = Env
    /\ UNCHANGED <<session, authed, member, grants, heap>>

OutageStores == StoresUpTo(MaxRecords, Rows({"a"}, {"a"}, {"p", "q"}, {TRUE}))

InitOutage ==
    /\ store \in OutageStores
    /\ session \in {NoRequest, Session("staff")}
    /\ InitRest

NextOutage ==
    \/ \E u \in Usernames, p \in Passwords : Authenticate(u, p)
    \/ \E i \in IDs : GetUser(RawInt(i))
    \/ \E S \in Outages : Break(S)
    \/ Repair

SpecOutage == InitOutage /\ [][NextOutage]_vars

\* C13: a query of authenticate or get_user that fails with a database
\* error is the last access of the call and the call ends with that error;
\* a call that returns None has met no failing query on its way: with
\* given inputs authenticate returns None only when none of the six probes
\* fails, and the fallback of get_user only when no table's lookup fails.
C13_StoreFailurePropagates ==
    /\ last.op \in {"authenticate", "get_user"}
       => \A j \in 1..Len(last.accesses) :
             last.accesses[j] \in store.down
             => (j = Len(last.accesses) /\ last.outcome = Raise("DatabaseError"))
    /\ (last.op = "authenticate" /\ last.username # None /\ last.password # None
            /\ last.outcome = ReturnNone)
       => \A n \in 1..6 : Access(ClaimProbes[n][1], ClaimProbes[n][2]) \notin store.down
    /\ (last.op = "get_user" /\ last.raw.t = "int" /\ Untagged
            /\ last.outcome = ReturnNone)
       => \A k \in Kinds : Access(k, "pk") \notin store.down

\* The Staff phone probe found a row with another secret, the Staff email
\* probe failed, and a Student row whose secret verifies was never reached.
C13_Witness ==
    /\ last.op = "authenticate"
    /\ store.down = {Access("Staff", "email")}
    /\ ProbeFinds(1, last.username) = 0
    /\ ProbeFinds(2, last.username) # 0 /\ ~ProbeVerifies(2, last.username, last.password)
    /\ ProbeVerifies(5, last.username, last.password)
    /\ last.outcome = Raise("DatabaseError")
    /\ Len(last.accesses) = 3

(***************************************************************************)
(* Failed authentications                                                  *)
(***************************************************************************)
\* The rows the n-th probe's column holds for identifier u.
ProbeMatches(n, u) ==
    {i \in IDs : store[ClaimProbes[n][1]][i].exists
                    /\ store[ClaimProbes[n][1]][i][ClaimProbes[n][2]] = u}

\* The last call of authenticate had to fail: an input was missing, or no
\* probe's column holds the identifier, or every row that does hold it has
\* another secret.
MustFail ==
    \/ last.username = None \/ last.password = None
    \/ \A n \in 1..6 : ProbeMatches(n, last.username) = {}
    \/ \A n \in 1..6 : \A i \in ProbeMatches(n, last.username) :
            store[ClaimProbes[n][1]][i].pw # last.password

\* C14: an authenticate call that fails because an input is missing, the
\* identifier is in no probe's column, or the rows found have another
\* secret, returns None: one outcome for all three causes, never an
\* exception.
C14_UniformFailure ==
    (last.op = "authenticate" /\ MustFail) => last.outcome = ReturnNone

\* Admin and Parent: the kinds this backend hands to the superclass.
OtherKinds == {"Admin", "Parent"}

\* C15: on an active Admin or Parent object without a target object the
\* three operations answer what the superclass's lookup answers for the
\* same arguments (has_perm: whether the permission is in it), the group
\* tables are not queried by this backend, and no Admin or Parent object
\* ever carries a cache written by it.
C15_DelegatesToSuperclass ==
    /\ \A h \in Holders :
          heap[h].kind \in OtherKinds => (~heap[h].has_cache /\ heap[h].computes = 0)
    /\ (last.op \in PermOps /\ last.inst \in Holders
            /\ Target(last.inst).kind \in OtherKinds
            /\ Target(last.inst).is_active /\ ~Target(last.inst).is_anonymous
            /\ ~last.obj)
       => (Answered(last.sup) /\ last.queries = 0)

\* has_perm on a Parent: the superclass grants app.edit_y, which no group holds.
C15_Witness ==
    /\ last.op = "has_perm" /\ last.inst \in Holders /\ ~last.obj
    /\ Target(last.inst).kind = "Parent" /\ Target(last.inst).is_active
    /\ last.perm = "app.edit_y" /\ last.sup = {"app.edit_y"}
    /\ grants["g1"] # {} /\ grants["g2"] = {}
    /\ last.flag = TRUE

\* The rows the tables hold, and the tables with is_active flipped on the
\* rows of S and nothing else changed.
ExistingRows == {x \in Kinds \X IDs : store[x[1]][x[2]].exists}
FlipActive(st, S) ==
    [k \in Kinds |->
        [i \in IDs |-> IF <<k, i>> \in S THEN [st[k][i] EXCEPT !.is_active = ~@]
                       ELSE st[k][i]]] @@ [down |-> st.down]

\* C16: authenticate and get_user do not look at is_active.  The outcome of
\* the last call is the outcome the same call has on every content of the
\* tables that differs from the present one only in is_active flags; a row
\* returned by authenticate is the row of the first probe that verifies,
\* switched off or not, and get_user returns the row it finds, switched
\* off or not.
C16_IgnoresIsActive ==
    /\ last.op = "authenticate"
       => /\ \A S \in SUBSET ExistingRows :
                authenticate(FlipActive(store, S), last.username, last.password).outcome
                    = last.outcome
          /\ last.outcome.status = "user"
                => \E n \in 1..6 :
                      /\ ProbeVerifies(n, last.username, last.password)
                      /\ \A m \in 1..(n - 1) :
                            ~ProbeVerifies(m, last.username, last.password)
                      /\ last.outcome = UserOf(ClaimProbes[n][1], ProbeFinds(n, last.username))
    /\ last.op = "get_user"
       => /\ \A S \in SUBSET ExistingRows :
                get_user(FlipActive(store, S), session, last.raw).outcome = last.outcome
          /\ (last.raw.t = "int" /\ Untagged) => last.outcome = FallbackAnswer(last.raw.n)

\* A Staff row that is switched off is returned although a Student row that
\* is switched on has the same phone and secret.
C16_Witness ==
    /\ last.op = "authenticate" /\ last.outcome.status = "user"
    /\ last.outcome.kind = "Staff"
    /\ ~store["Staff"][last.outcome.id].is_active
    /\ ProbeVerifies(5, last.username, last.password)
    /\ store["Student"][ProbeFinds(5, last.username)].is_active

\* C17: the set an object's first computation cached stays with the object:
\* no step other than the holder taking a new object changes it, whether
\* the record joins or leaves groups, groups gain or lose permissions, or
\* is_active is assigned.  Every later call without a target object on a
\* Staff or Student object that carries a cache answers from that set
\* without querying the groups while the object is active, and answers
\* empty or false while it is not.
C17_StaleCache ==
    [][ /\ \A h \in Holders :
             (heap[h].has_cache
                 /\ ~(last'.op \in {"get_user", "authenticate"} /\ heap'[h] # heap[h]))
             => (heap'[h].has_cache /\ heap'[h].cache = heap[h].cache)
        /\ (last'.op \in PermOps /\ last'.inst \in Holders /\ ~last'.obj
                /\ heap[last'.inst].has_cache
                /\ heap[last'.inst].kind \in {"Staff", "Student"})
           => LET S  == heap[last'.inst].cache
                  on == heap[last'.inst].is_active
              IN  /\ last'.queries = 0
                  /\ last'.op \in SetOps => last'.perms = (IF on THEN S ELSE {})
                  /\ last'.op = "has_perm" => last'.flag = (on /\ last'.perm \in S)
      ]_vars

\* has_perm says yes on an object whose record has since left every group.
C17_Witness ==
    /\ last.op = "has_perm" /\ last.inst \in Holders /\ ~last.obj
    /\ Eligible(Target(last.inst), last.obj)
    /\ member[Target(last.inst).kind][Target(last.inst).id] = {}
    /\ grants["g1"] = {} /\ grants["g2"] = {}
    /\ last.flag = TRUE

\* C18: when more than one User row has the identifier as email,
\* authenticate ends at probe 1 with an error: no row is checked and no
\* later probe is made.  A row returned by one of the other probes is the
\* first row its column holds for the identifier, and that row's secret
\* verifies: a probe whose first row has another secret returns nothing,
\* also when a later row of the same column has the secret given.
C18_DuplicateIdentifiers ==
    (last.op = "authenticate" /\ last.username # None /\ last.password # None)
    => LET n == Len(last.accesses)
       IN  /\ Cardinality(ProbeMatches(1, last.username)) > 1
              => (last.outcome.status = "raise" /\ n = 1)
           /\ (last.outcome.status = "user" /\ n >= 2)
              => /\ last.outcome.kind = ClaimProbes[n][1]
                 /\ \A i \in ProbeMatches(n, last.username) : last.outcome.id <= i
                 /\ store[last.outcome.kind][last.outcome.id].pw = last.password
           /\ \A m \in 2..6 :
                 (ProbeMatches(m, last.username) # {} /\ ~ProbeVerifies(m, last.username, last.password))
                 => ~(n = m /\ last.outcome.status = "user")

\* Two Staff rows with the phone given: the first has another secret, the
\* second has the secret given, and the call returns None.
C18_Witness ==
    /\ last.op = "authenticate" /\ last.username = "a" /\ last.password = "p"
    /\ ProbeMatches(2, "a") = {1, 2}
    /\ store["Staff"][1].pw = "q" /\ store["Staff"][2].pw = "p"
    /\ last.outcome = ReturnNone
    /\ Len(last.accesses) = 6

====
